---- MODULE Spec2Model ----
(***************************************************************************)
(* Model of src/main.rs, a currency quote scraper for Ledger: main reads   *)
(* ~/.quoteparams, runs get_currency on every record through a rayon       *)
(* parallel iterator collected into a Result<Vec<String>, _>, and prints   *)
(* the lines.                                                              *)
(*                                                                         *)
(* String fields are TLA+ strings joined with \o the way format! joins     *)
(* them.  The `select` field is kept as the sequence of its lexical tokens *)
(* because Selector::parse looks inside it; StrOf turns it into the string *)
(* the error message shows.                                                *)
(***************************************************************************)
EXTENDS Integers, Sequences, FiniteSets, TLC

\* Largest number of records in the configuration file.
MaxRecords == 2
\* Largest reading of the wall clock (seconds after midnight of the model's day).
MaxClock == 1

VARIABLES
    home,         \* environment: does home_dir() return Some(path)
    file,         \* environment: the file at <home>/.quoteparams
    clock,        \* environment: the wall clock read by Utc::now()
    pc,           \* position of main: "home", "read", "collect", "print", "done"
    params,       \* main.rs:115 the loaded Vec<QuoteParams>
    status,       \* per record: "pending", "running", "returned", "done", "skipped"
    net,          \* per record: the outcome the network gave its GET ("none" before)
    ret,          \* per record: the value get_currency returned
    saved_error,  \* rayon's saved_error: Mutex<Option<E>> of collect::<Result<..>>
    full,         \* rayon's while_some flag: a None item has been seen
    invoked,      \* history: indices of the records get_currency was called on, in call order
    arrived,      \* history: indices of the records whose result reached the collector, in order
    results,      \* main.rs:117 the collected Vec<String>
    stdout,       \* lines printed by println!
    stderr,       \* the diagnostic of a failed main (None while there is none)
    exit_code     \* process exit status, -1 while running

vars == <<home, file, clock, pc, params, status, net, ret, saved_error, full,
          invoked, arrived, results, stdout, stderr, exit_code>>

----------------------------------------------------------------------------
\* Result and Option values.
Ok(v) == [ok |-> TRUE, val |-> v]
Err(e) == [ok |-> FALSE, err |-> e]
None == [some |-> FALSE]
Some(v) == [some |-> TRUE, val |-> v]
Unset == [unset |-> TRUE]

RECURSIVE StrOf(_)
StrOf(cs) == IF cs = <<>> THEN "" ELSE Head(cs) \o StrOf(Tail(cs))

----------------------------------------------------------------------------
\* The environment: the web, and the records a configuration file can hold.

UrlEur == "http://x/eur"
UrlGbp == "http://x/gbp"

\* The document each url serves, as its element nodes in document order.
Web(url) ==
    IF url = UrlEur
    THEN << [tag |-> "div",  id |-> "",     class |-> "b", inner |-> "rates"],
            [tag |-> "span", id |-> "rate", class |-> "a", inner |-> "1.0921"],
            [tag |-> "span", id |-> "",     class |-> "a", inner |-> "1.1000"] >>
    ELSE << [tag |-> "span", id |-> "rate", class |-> "b", inner |-> "0.8571"] >>

Idents == {"a", "b", "rate", "span", "div"}

\* struct QuoteParams
QuoteParams(url, select, from, to) ==
    [url |-> url, select |-> select, from |-> from, to |-> to]

Targets ==
    { QuoteParams(UrlEur, <<"span">>,      "EUR", "USD"),   \* matches nodes 2 and 3
      QuoteParams(UrlGbp, <<"#", "rate">>, "GBP", "USD"),   \* matches one node
      QuoteParams(UrlGbp, <<".", "a">>,    "GBP", "EUR"),   \* valid, no match
      QuoteParams(UrlGbp, <<"#">>,         "USD", "GBP") }  \* not a selector

\* A record of the file that lacks required fields.
Malformed == [url |-> UrlEur, select |-> <<"#", "rate">>]

RawRecords == Targets \cup {Malformed}

RECURSIVE SeqsUpTo(_, _)
SeqsUpTo(S, n) ==
    IF n = 0 THEN {<<>>}
    ELSE LET shorter == SeqsUpTo(S, n - 1)
         IN shorter \cup {Append(s, x) : s \in {t \in shorter : Len(t) = n - 1}, x \in S}

Files ==
    {[state |-> "absent"], [state |-> "unreadable"]}
        \cup {[state |-> "ok", content |-> c] : c \in SeqsUpTo(RawRecords, MaxRecords)}

NetOutcomes == {"ok", "connfail", "badbody"}

----------------------------------------------------------------------------
\* read_quote_params (main.rs:59-69)

ConfigPath == "/home/u/.quoteparams"
\* {:?} of a path: the path in double quotes
PathDebug == "\"" \o ConfigPath \o "\""

QuoteParamsFields == {"url", "select", "from", "to"}

\* #[derive(Deserialize)] on QuoteParams: every field is required.
Deserializable(raw) == DOMAIN raw = QuoteParamsFields

\* A loader that drops the records it cannot deserialize instead of failing.
read_quote_params_lenient(f) ==
    IF f.state = "absent" THEN Ok(<<>>)
    ELSE IF f.state = "unreadable" THEN Ok(<<>>)
    ELSE Ok(SelectSeq(f.content, Deserializable))

read_quote_params(f) ==
    IF f.state = "absent" THEN Err("Failed to open file " \o PathDebug)
    ELSE IF f.state = "unreadable" THEN Err("Failed to read config file " \o PathDebug)
    ELSE IF \E k \in 1..Len(f.content) : ~Deserializable(f.content[k])
         THEN Err("Failed to parse config file " \o PathDebug)
         ELSE Ok(f.content)

----------------------------------------------------------------------------
\* get_currency (main.rs:80-106)

\* scraper::Selector::parse on the tokens of the expression: .class, #id or tag.
SelectorParse(sel) ==
    IF Len(sel) = 2 /\ sel[1] = "." /\ sel[2] \in Idents
        THEN Ok([kind |-> "class", name |-> sel[2]])
    ELSE IF Len(sel) = 2 /\ sel[1] = "#" /\ sel[2] \in Idents
        THEN Ok([kind |-> "id", name |-> sel[2]])
    ELSE IF Len(sel) = 1 /\ sel[1] \in Idents
        THEN Ok([kind |-> "tag", name |-> sel[1]])
    ELSE Err("invalid selector")

Matches(selector, node) ==
    CASE selector.kind = "class" -> node.class = selector.name
      [] selector.kind = "id"    -> node.id = selector.name
      [] selector.kind = "tag"   -> node.tag = selector.name

\* page.select(&selector).map(|v| v.inner_html()): the matches in document order
SelectInner(page, selector) ==
    LET hit(node) == Matches(selector, node)
        hits == SelectSeq(page, hit)
    IN [k \in 1..Len(hits) |-> hits[k].inner]

\* .next().unwrap_or("".to_string())
NextOrEmpty(inners) == IF Len(inners) > 0 THEN inners[1] ELSE ""

Pad2(n) == IF n < 10 THEN "0" \o ToString(n) ELSE ToString(n)

\* Utc::now().format("%Y/%m/%d %H:%M:%S"), t seconds into the model's day
FormatNow(t) ==
    "2024/01/01 " \o Pad2((t \div 3600) % 24) \o ":" \o Pad2((t \div 60) % 60)
        \o ":" \o Pad2(t % 60)

\* format!("P {} {} {} {}", now, param.from, currency, param.to)
FormatLine(now, from, currency, to) ==
    "P " \o now \o " " \o from \o " " \o currency \o " " \o to

\* A fetcher that compiles the selector before it touches the network.
get_currency_selector_first(param, outcome, t) ==
    IF ~SelectorParse(param.select).ok
        THEN Err("Cannot parse html selector " \o StrOf(param.select))
    ELSE IF outcome = "connfail" THEN Err("Cannot read url " \o param.url)
    ELSE IF outcome = "badbody" THEN Err("Cannot parse html from url " \o param.url)
    ELSE Ok(FormatLine(FormatNow(t), param.from,
                       NextOrEmpty(SelectInner(Web(param.url), SelectorParse(param.select).val)),
                       param.to))

\* outcome is what the network does to the GET, t the clock when the line is made.
get_currency(param, outcome, t) ==
    IF outcome = "connfail" THEN Err("Cannot read url " \o param.url)
    ELSE IF outcome = "badbody" THEN Err("Cannot parse html from url " \o param.url)
    ELSE LET page == Web(param.url)
             parsed == SelectorParse(param.select)
         IN IF ~parsed.ok
            THEN Err("Cannot parse html selector " \o StrOf(param.select))
            ELSE LET currency == NextOrEmpty(SelectInner(page, parsed.val))
                     now == FormatNow(t)
                 IN Ok(FormatLine(now, param.from, currency, param.to))

----------------------------------------------------------------------------
\* main (main.rs:112-127) and the rayon pipeline of lines 117-120
\*   params.into_par_iter().map(get_currency).collect::<Result<Vec<String>, _>>()
\* rayon's Result collector is
\*   par_iter.map(ok(&saved_error)).while_some().collect()
\* where ok() keeps the first error it can store in saved_error and yields None
\* for every Err, and while_some() raises a shared flag at the first None so
\* that items not yet begun are dropped.

Indices == 1..Len(params)

\* into_par_iter moves each record out of the Vec once.
Startable(st) == st = "pending"

\* A pipeline that may drop a record although nothing has failed.
Skippable_always(st, fl) == st = "pending"

\* while_some: a record not yet begun is dropped once the flag is up.
Skippable(st, fl) == st = "pending" /\ fl

\* The last error overwrites the saved one.
SaveError_last(saved, e) == Some(e)

\* if guard.is_none() { *guard = Some(error) }
SaveError(saved, e) == IF saved.some THEN saved ELSE Some(e)

RECURSIVE Dedup(_)
Dedup(ls) ==
    IF ls = <<>> THEN <<>>
    ELSE LET front == Dedup(SubSeq(ls, 1, Len(ls) - 1))
             last == ls[Len(ls)]
         IN IF \E k \in 1..Len(front) : front[k] = last THEN front ELSE Append(front, last)

IndexSeq(n) == [k \in 1..n |-> k]

\* A collection that keeps one copy of equal lines.
Collection_dedup(rs, st) ==
    LET kept(i) == st[i] = "done" /\ rs[i].ok
        idx == SelectSeq(IndexSeq(Len(rs)), kept)
    IN Dedup([k \in 1..Len(idx) |-> rs[idx[k]].val])

\* The Some items, in the order of the records they came from.
Collection(rs, st) ==
    LET kept(i) == st[i] = "done" /\ rs[i].ok
        idx == SelectSeq(IndexSeq(Len(rs)), kept)
    IN [k \in 1..Len(idx) |-> rs[idx[k]].val]

\* A collector that hands over the lines it has whatever was saved.
FromParIter_partial(saved, collection) == Ok(collection)

\* match saved_error.into_inner() { Some(error) => Err(error), None => Ok(collection) }
FromParIter(saved, collection) ==
    IF saved.some THEN Err(saved.val) ELSE Ok(collection)

\* A loop that takes the lines from the back.
NextLine_back(res, out) == res[Len(res) - Len(out)]

\* for res in results { println!("{}", res) }: the line the loop prints next
NextLine(res, out) == res[Len(out) + 1]

\* A main that reports success whatever it returns.
Termination_zero(r) == 0

\* fn main() -> Result<(), Box<dyn Error>>: Ok exits 0, Err exits 1
Termination(r) == IF r.ok THEN 0 ELSE 1

\* main returns r: the process ends, an Err is shown on the error stream.
Return(r) ==
    /\ pc' = "done"
    /\ exit_code' = Termination(r)
    /\ stderr' = IF r.ok THEN None ELSE Some(r.err)

Init ==
    /\ home \in BOOLEAN
    /\ file \in Files
    /\ clock = 0
    /\ pc = "home"
    /\ params = <<>>
    /\ status = <<>>
    /\ net = <<>>
    /\ ret = <<>>
    /\ saved_error = None
    /\ full = FALSE
    /\ invoked = <<>>
    /\ arrived = <<>>
    /\ results = <<>>
    /\ stdout = <<>>
    /\ stderr = None
    /\ exit_code = -1

\* main.rs:113 home_dir().ok_or("Cannot find home dir")?
MainHome ==
    /\ pc = "home"
    /\ IF home
       THEN pc' = "read" /\ UNCHANGED <<exit_code, stderr>>
       ELSE Return(Err("Cannot find home dir"))
    /\ UNCHANGED <<home, file, clock, params, status, net, ret, saved_error, full,
                   invoked, arrived, results, stdout>>

\* main.rs:114-115 read_quote_params(&path)?
MainRead ==
    /\ pc = "read"
    /\ LET r == read_quote_params(file)
       IN IF r.ok
          THEN /\ params' = r.val
               /\ status' = [i \in 1..Len(r.val) |-> "pending"]
               /\ net' = [i \in 1..Len(r.val) |-> "none"]
               /\ ret' = [i \in 1..Len(r.val) |-> Unset]
               /\ pc' = "collect"
               /\ UNCHANGED <<exit_code, stderr>>
          ELSE /\ Return(r)
               /\ UNCHANGED <<params, status, net, ret>>
    /\ UNCHANGED <<home, file, clock, saved_error, full, invoked, arrived, results, stdout>>

\* main.rs:119 a worker calls get_currency(param): the GET of line 81 goes out
StartFetch(i) ==
    /\ pc = "collect"
    /\ Startable(status[i])
    /\ status' = [status EXCEPT ![i] = "running"]
    /\ invoked' = Append(invoked, i)
    /\ UNCHANGED <<home, file, clock, pc, params, net, ret, saved_error, full,
                   arrived, results, stdout, stderr, exit_code>>

\* main.rs:81-105 the network answers and get_currency returns
FinishFetch(i) ==
    /\ pc = "collect"
    /\ status[i] = "running"
    /\ \E outcome \in NetOutcomes :
        /\ net' = [net EXCEPT ![i] = outcome]
        /\ ret' = [ret EXCEPT ![i] = get_currency(params[i], outcome, clock)]
    /\ status' = [status EXCEPT ![i] = "returned"]
    /\ UNCHANGED <<home, file, clock, pc, params, saved_error, full, invoked,
                   arrived, results, stdout, stderr, exit_code>>

\* main.rs:120 the result reaches the collector: ok() and while_some().
\* ok() takes the mutex with try_lock, which fails only while another worker
\* is inside the same critical section storing its own error, so the section
\* is one step here.
MapOk(i) ==
    /\ pc = "collect"
    /\ status[i] = "returned"
    /\ status' = [status EXCEPT ![i] = "done"]
    /\ arrived' = Append(arrived, i)
    /\ IF ret[i].ok
       THEN UNCHANGED <<saved_error, full>>
       ELSE saved_error' = SaveError(saved_error, ret[i].err) /\ full' = TRUE
    /\ UNCHANGED <<home, file, clock, pc, params, net, ret, invoked, results,
                   stdout, stderr, exit_code>>

\* main.rs:120 while_some() drops a record that has not begun
SkipFetch(i) ==
    /\ pc = "collect"
    /\ Skippable(status[i], full)
    /\ status' = [status EXCEPT ![i] = "skipped"]
    /\ UNCHANGED <<home, file, clock, pc, params, net, ret, saved_error, full,
                   invoked, arrived, results, stdout, stderr, exit_code>>

\* main.rs:120 every worker has joined: collect returns, and `?` acts on it
Collect ==
    /\ pc = "collect"
    /\ \A i \in Indices : status[i] \in {"done", "skipped"}
    /\ LET r == FromParIter(saved_error, Collection(ret, status))
       IN IF r.ok
          THEN /\ results' = r.val
               /\ pc' = "print"
               /\ UNCHANGED <<exit_code, stderr>>
          ELSE /\ Return(r)
               /\ UNCHANGED results
    /\ UNCHANGED <<home, file, clock, params, status, net, ret, saved_error, full,
                   invoked, arrived, stdout>>

\* main.rs:122-124 one turn of the loop
PrintLine ==
    /\ pc = "print"
    /\ Len(stdout) < Len(results)
    /\ stdout' = Append(stdout, NextLine(results, stdout))
    /\ UNCHANGED <<home, file, clock, pc, params, status, net, ret, saved_error, full,
                   invoked, arrived, results, stderr, exit_code>>

\* main.rs:126 Ok(())
MainOk ==
    /\ pc = "print"
    /\ Len(stdout) >= Len(results)
    /\ Return(Ok(<<>>))
    /\ UNCHANGED <<home, file, clock, params, status, net, ret, saved_error, full,
                   invoked, arrived, results, stdout>>

\* The wall clock advances.
Tick ==
    /\ pc # "done"
    /\ clock < MaxClock
    /\ clock' = clock + 1
    /\ UNCHANGED <<home, file, pc, params, status, net, ret, saved_error, full,
                   invoked, arrived, results, stdout, stderr, exit_code>>

Next ==
    \/ MainHome
    \/ MainRead
    \/ \E i \in Indices : StartFetch(i)
    \/ \E i \in Indices : FinishFetch(i)
    \/ \E i \in Indices : MapOk(i)
    \/ \E i \in Indices : SkipFetch(i)
    \/ Collect
    \/ PrintLine
    \/ MainOk
    \/ Tick

Spec == Init /\ [][Next]_vars

----------------------------------------------------------------------------
\* Vocabulary of the properties.

\* The configuration can be loaded: the file opens, reads and deserializes.
ConfigLoadable ==
    /\ file.state = "ok"
    /\ \A k \in 1..Len(file.content) : DOMAIN file.content[k] = QuoteParamsFields

\* get_currency has returned for record i.
Returned(i) == status[i] \in {"returned", "done"}

Failed(i) == Returned(i) /\ ~ret[i].ok
Succeeded(i) == Returned(i) /\ ret[i].ok

\* Number of times get_currency was called on record i.
Calls(i) == Cardinality({k \in 1..Len(invoked) : invoked[k] = i})

\* The records whose error reached the collector, in the order they reached it.
FailOrder == SelectSeq(arrived, LAMBDA i : ~ret[i].ok)

ValidSelector(sel) ==
    \/ Len(sel) = 2 /\ sel[1] \in {".", "#"} /\ sel[2] \in Idents
    \/ Len(sel) = 1 /\ sel[1] \in Idents

\* Node j of the page is matched by the selector tokens sel.
Hit(sel, page, j) ==
    \/ Len(sel) = 2 /\ sel[1] = "." /\ page[j].class = sel[2]
    \/ Len(sel) = 2 /\ sel[1] = "#" /\ page[j].id = sel[2]
    \/ Len(sel) = 1 /\ page[j].tag = sel[1]

\* Node j is the first node of the page, in document order, that sel matches.
FirstHit(sel, page, j) ==
    /\ j \in 1..Len(page)
    /\ Hit(sel, page, j)
    /\ \A h \in 1..(j - 1) : ~Hit(sel, page, h)

NoHit(sel, page) == \A j \in 1..Len(page) : ~Hit(sel, page, j)

SelectorError(param) == Err("Cannot parse html selector " \o StrOf(param.select))
NetworkError(param) == Err("Cannot read url " \o param.url)
HttpBodyError(param) == Err("Cannot parse html from url " \o param.url)

----------------------------------------------------------------------------
\* C1: a record whose selector is valid but matches no node of the fetched
\* document makes get_currency return an error, never a line.
C1_NoMatchIsError ==
    \A i \in Indices :
        (/\ Returned(i)
         /\ net[i] = "ok"
         /\ ValidSelector(params[i].select)
         /\ NoHit(params[i].select, Web(params[i].url)))
            => ~ret[i].ok

\* C2 as stated: a record whose selector is not valid fails with the selector
\* error whatever the network does.
C2_SelectorErrorAlways ==
    \A i \in Indices :
        (Returned(i) /\ ~ValidSelector(params[i].select))
            => ret[i] = SelectorError(params[i])

\* C2 as amended: a record whose selector is not valid never yields a line; it
\* fails with the selector error when the GET succeeds and the body decodes,
\* with the network error when the GET fails, and with the body error when the
\* body cannot be decoded.
C2_SelectorErrorAfterBody ==
    \A i \in Indices :
        (Returned(i) /\ ~ValidSelector(params[i].select))
            => /\ net[i] = "ok" => ret[i] = SelectorError(params[i])
               /\ net[i] = "connfail" => ret[i] = NetworkError(params[i])
               /\ net[i] = "badbody" => ret[i] = HttpBodyError(params[i])

C2_Witness ==
    \E i, j \in Indices :
        /\ Returned(i) /\ ~ValidSelector(params[i].select)
        /\ net[i] = "ok" /\ ret[i] = SelectorError(params[i])
        /\ Returned(j) /\ ~ValidSelector(params[j].select)
        /\ net[j] = "connfail" /\ ret[j] = NetworkError(params[j])

\* C3: the process exits non-zero when the home directory is unknown, the
\* configuration cannot be loaded or a fetch failed; it exits zero only when
\* every fetch succeeded and every line has been printed.
C3_ExitStatus ==
    /\ (pc = "done" /\ (~home \/ ~ConfigLoadable \/ \E i \in Indices : Failed(i)))
            => exit_code > 0
    /\ exit_code = 0
            => /\ pc = "done"
               /\ home /\ ConfigLoadable
               /\ Len(params) = Len(file.content)
               /\ \A i \in Indices : Succeeded(i)
               /\ Len(stdout) = Len(params)

C3_Witness ==
    /\ pc = "done"
    /\ exit_code = 1
    /\ Len(params) = 2
    /\ Succeeded(1)
    /\ Failed(2)

\* C4: when the configuration of N records loads and all N fetches succeed, the
\* finished program has printed exactly N lines, one for each record, whatever
\* order the fetches completed in.
C4_OneLinePerRecord ==
    (/\ pc = "done"
     /\ home /\ ConfigLoadable
     /\ \A i \in 1..Len(file.content) : i \in Indices /\ Succeeded(i))
        => /\ Len(stdout) = Len(file.content)
           /\ \E p \in [1..Len(stdout) -> Indices] :
                /\ \A k, l \in 1..Len(stdout) : k # l => p[k] # p[l]
                /\ \A k \in 1..Len(stdout) : stdout[k] = ret[p[k]].val

C4_Witness ==
    /\ pc = "done"
    /\ Len(params) = 2
    /\ params[1] = params[2]
    /\ arrived = <<2, 1>>
    /\ ret[1] = ret[2]
    /\ Len(stdout) = 2

\* C5: every printed line is "P <timestamp> <from> <value> <to>" with the from
\* and to of its record and, as value, the inner content of the first node of
\* the record's document that the record's selector matches.
C5_LineShape ==
    \A k \in 1..Len(stdout) :
        \E t \in 0..MaxClock : \E j \in 1..Len(Web(params[k].url)) :
            /\ FirstHit(params[k].select, Web(params[k].url), j)
            /\ stdout[k] = "P " \o FormatNow(t) \o " " \o params[k].from \o " "
                                \o Web(params[k].url)[j].inner \o " " \o params[k].to

\* C6: when the home directory is unknown or the configuration cannot be
\* loaded, no fetch is ever started and no line is ever printed.
C6_AbortBeforeFetch ==
    (~home \/ ~ConfigLoadable) => invoked = <<>> /\ stdout = <<>>

C6_Witness ==
    /\ pc = "done"
    /\ home
    /\ file.state = "ok"
    /\ Len(file.content) = 2
    /\ file.content[1] \in Targets
    /\ ~ConfigLoadable
    /\ exit_code = 1

\* C7 as stated: in a finished run every loaded record has been fetched
\* exactly once, also when another record's fetch failed.
C7_EachTargetFetchedOnce ==
    pc = "done" => \A i \in Indices : Calls(i) = 1

\* C7 as amended: no record is ever fetched twice, and once the collection is
\* over in a run where no fetch failed every record has been fetched exactly
\* once (after a failure, records not yet begun may stay unfetched).
C7_AtMostOnceAllIfNoFailure ==
    /\ \A i \in Indices : Calls(i) <= 1
    /\ (pc \in {"print", "done"} /\ ~\E i \in Indices : Failed(i))
            => \A i \in Indices : Calls(i) = 1

C7_Witness ==
    /\ pc = "done"
    /\ Len(params) = 2
    /\ invoked = <<2, 1>>
    /\ \A i \in Indices : Succeeded(i)

\* C8: when fetches fail, the error the batch reports is the error of the
\* failing fetch that reached the collector before every other failing fetch.
C8_FirstErrorReported ==
    FailOrder # <<>>
        => /\ saved_error = Some(ret[FailOrder[1]].err)
           /\ pc = "done" => stderr = Some(ret[FailOrder[1]].err)

C8_Witness ==
    /\ pc = "done"
    /\ FailOrder = <<2, 1>>
    /\ ret[1] # ret[2]
    /\ stderr = Some(ret[2].err)

\* C9: a line is printed only after every fetch has returned successfully and
\* been collected; a run in which a fetch failed prints nothing.
C9_AllOrNothing ==
    /\ stdout # <<>>
            => /\ pc \in {"print", "done"}
               /\ \A i \in Indices : status[i] = "done" /\ ret[i].ok
    /\ (\E i \in Indices : Failed(i)) => stdout = <<>>

C9_Witness ==
    /\ pc = "done"
    /\ Len(arrived) = 2
    /\ Succeeded(arrived[1])
    /\ Failed(arrived[2])
    /\ stdout = <<>>

\* C10: when all fetches succeed the k-th printed line is the line made from
\* the k-th record of the configuration file, whatever order the fetches
\* completed in.
C10_InputOrder ==
    (\A i \in Indices : Succeeded(i))
        => \A k \in 1..Len(stdout) :
              /\ params[k] = file.content[k]
              /\ stdout[k] = ret[k].val

C10_Witness ==
    /\ pc = "done"
    /\ Len(stdout) = 2
    /\ arrived = <<2, 1>>
    /\ stdout[1] # stdout[2]
    /\ stdout[1] = ret[1].val

====
